---- MODULE Spec2Model ----
(***************************************************************************)
(* A model of the sisyphus virtual file system (package sisyphus): the     *)
(* tree of nodes owned by a FileSystem, path resolution, and the           *)
(* structural operations With, Sync, Bind and Unbind.                      *)
(*                                                                         *)
(* Strings are modelled as sequences of one-character strings, so that     *)
(* filepath.Clean, filepath.Split and strings.Split are computed and not   *)
(* assumed.                                                                *)
(***************************************************************************)
EXTENDS Integers, Sequences, FiniteSets, TLC

VARIABLES
    files,   \* Dir.files: for every directory, the map from child name to node
    fs,      \* the fs field of every node: its FileSystem back-reference
    atime,   \* attr.atime of every node
    mtime,   \* attr.mtime of every node
    ctime,   \* attr.ctime of every node
    now,     \* the value the injected clock FileSystem.now returns
    fault,   \* "none", or the run-time fault that ended the program
    last,    \* the last operation called, its arguments, results and pre-state
    steps,   \* number of operations called so far
    mu,      \* FileSystem.mu: the goroutine holding it, or Nil
    nmu,     \* the mu field of every node: the goroutine holding it, or Nil
    pc,      \* where every goroutine is in the call it is running
    loc,     \* the arguments, locals and results of every goroutine's call
    acc,     \* the map accesses every goroutine has begun and not ended
    calls,   \* number of calls every goroutine has made
    obj,     \* the node the program has constructed: its name, attr and fs fields
    dev,     \* the data backend of that node: a Bytes, a String or a Func
    resp     \* the last request made of that node and the response to it

heap == <<files, fs, atime, mtime, ctime>>
goroutines == <<mu, nmu, pc, loc, acc, calls>>
object == <<obj, dev, resp>>
vars == <<files, fs, atime, mtime, ctime, now, fault, last, steps,
          mu, nmu, pc, loc, acc, calls, obj, dev, resp>>

-----------------------------------------------------------------------------
(* Bounds of the model *)

MaxSteps == 2
MaxClock == 2
MaxCalls == 1
MaxOps == 2
MaxOff == 4

-----------------------------------------------------------------------------
(* The node universe: the objects the hosting program has constructed. *)

\* The goroutines that call into the file system: the hosting program's and
\* the protocol engine's workers.
Procs == {"p1", "p2"}

Dirs == {"root", "a", "b"}
Files == {"f", "g"}
Nodes == Dirs \cup Files
Nil == "nil"

\* The two values a back-reference takes: the FileSystem, or nofs (nil).
FS == "FS"
nofs == "nofs"

SEP == "/"

\* Node.Name(): the name given at construction.
Name(n) ==
    CASE n = "root" -> <<"/">>
      [] n = "a" -> <<"a">>
      [] n = "b" -> <<"b">>
      [] n = "f" -> <<"f">>
      [] n = "g" -> <<"f">>

\* The concrete type behind the Node interface.
Kind(n) ==
    CASE n \in Dirs -> "Dir"
      [] n = "f" -> "RW"
      [] n = "g" -> "RO"

\* The zero time.Time.
ZeroTime == 0

-----------------------------------------------------------------------------
(* Strings *)

\* s[i:] and s[:i] of Go, with 0-based i.
From(s, i) == SubSeq(s, i + 1, Len(s))
Upto(s, i) == SubSeq(s, 1, i)

\* strings.Index(s, "/") + 1, or 0 if there is none.
IndexSep(s) ==
    IF \E i \in 1..Len(s) : s[i] = SEP
    THEN CHOOSE i \in 1..Len(s) : s[i] = SEP /\ \A j \in 1..(i - 1) : s[j] # SEP
    ELSE 0

\* strings.LastIndex(s, "/") + 1, or 0 if there is none.
LastIndexSep(s) ==
    IF \E i \in 1..Len(s) : s[i] = SEP
    THEN CHOOSE i \in 1..Len(s) : s[i] = SEP /\ \A j \in (i + 1)..Len(s) : s[j] # SEP
    ELSE 0

\* strings.Split(s, "/")
RECURSIVE StringsSplit(_)
StringsSplit(s) ==
    LET i == IndexSep(s)
    IN  IF i = 0 THEN <<s>>
        ELSE <<Upto(s, i - 1)>> \o StringsSplit(From(s, i))

\* strings.Join(elems, "/")
RECURSIVE StringsJoin(_)
StringsJoin(elems) ==
    IF Len(elems) = 0 THEN <<>>
    ELSE IF Len(elems) = 1 THEN elems[1]
    ELSE elems[1] \o <<SEP>> \o StringsJoin(Tail(elems))

\* The element stack filepath.Clean builds: empty and "." elements are
\* dropped, ".." removes the element before it, or is kept at the start of a
\* path that is not rooted.
RECURSIVE CleanElements(_, _, _)
CleanElements(elems, out, rooted) ==
    IF Len(elems) = 0 THEN out
    ELSE LET e == elems[1]
             rest == Tail(elems)
         IN  IF e = <<>> \/ e = <<".">> THEN CleanElements(rest, out, rooted)
             ELSE IF e = <<".", ".">>
                  THEN IF Len(out) > 0 /\ out[Len(out)] # <<".", ".">>
                       THEN CleanElements(rest, Upto(out, Len(out) - 1), rooted)
                       ELSE IF rooted THEN CleanElements(rest, out, rooted)
                       ELSE CleanElements(rest, Append(out, e), rooted)
             ELSE CleanElements(rest, Append(out, e), rooted)

\* filepath.Clean(path)
Clean(path) ==
    IF Len(path) = 0 THEN <<".">>
    ELSE LET rooted == path[1] = SEP
             out == StringsJoin(CleanElements(StringsSplit(path), <<>>, rooted))
         IN  IF rooted THEN <<SEP>> \o out
             ELSE IF Len(out) = 0 THEN <<".">> ELSE out

\* filepath.Split(path): the directory part, with its trailing separator, and
\* the file part.
FilepathSplit(path) ==
    LET i == LastIndexSep(path)
    IN  [dir |-> Upto(path, i), file |-> From(path, i)]

-----------------------------------------------------------------------------
(* The heap: the fields of every node, as one record the operations below  *)
(* transform.                                                              *)

Tree == [files |-> files, fs |-> fs, atime |-> atime, mtime |-> mtime, ctime |-> ctime]

\* Errors. A nil error, and *os.PathError{Op, Path, Err}.
NoError == [Op |-> "", Path |-> <<>>, Err |-> "nil"]
PathError(op, path, errno) == [Op |-> op, Path |-> path, Err |-> errno]

\* os.IsNotExist(err)
IsNotExist(err) == err.Err = "ENOENT"

\* The nodes in a directory's map: the values `range dir.files` yields.
Children(t, d) == {t.files[d][k] : k \in DOMAIN t.files[d]}

\* m[k] = v on a Go map.
MapSet(m, k, v) == [x \in (DOMAIN m) \cup {k} |-> IF x = k THEN v ELSE m[x]]

\* delete(m, k) on a Go map.
MapDelete(m, k) == [x \in (DOMAIN m) \ {k} |-> m[x]]

\* Dir.SetSys, RO.SetSys, WO.SetSys, RW.SetSys: store the back-reference and
\* stamp the three timestamps, from the file system's clock or, for a nil
\* file system, with the zero time.
SetSys(n, filesys, t) ==
    LET stamp == IF filesys # nofs THEN now ELSE ZeroTime
    IN  [t EXCEPT !.fs[n] = filesys,
                  !.ctime[n] = stamp,
                  !.atime[n] = stamp,
                  !.mtime[n] = stamp]

\* The deepest recursion of sync that can end: a path of sync calls longer
\* than the number of nodes visits a directory from itself, and never returns.
StackLimit == Cardinality(Nodes)

\* A sync that stores the back-reference of every node it visits.
staleAlways(filesys, n, t) == TRUE

\* The test of FileSystem.sync, n.Sys() != fs: the node's back-reference is
\* not the file system being synced.
stale(filesys, n, t) == t.fs[n] # filesys

\* FileSystem.sync: a depth-first walk. The result is the heap after the
\* walk, and whether the recursion ran the goroutine out of stack.
RECURSIVE syncNode(_, _, _, _)
RECURSIVE syncRange(_, _, _, _)
syncNode(filesys, n, r, depth) ==
    IF r.overflow \/ depth > StackLimit THEN [r EXCEPT !.overflow = TRUE]
    ELSE LET t1 == IF stale(filesys, n, r.t) THEN SetSys(n, filesys, r.t) ELSE r.t
         IN  IF Kind(n) # "Dir" THEN [r EXCEPT !.t = t1]
             ELSE syncRange(filesys, Children(t1, n), [r EXCEPT !.t = t1], depth)

syncRange(filesys, todo, r, depth) ==
    IF todo = {} \/ r.overflow THEN r
    ELSE LET c == CHOOSE x \in todo : TRUE
         IN  syncRange(filesys, todo \ {c}, syncNode(filesys, c, r, depth + 1), depth)

\* A sync that sets the back-reference of n and does not descend.
syncOnlyNode(filesys, n, t) ==
    [t |-> IF t.fs[n] # filesys THEN SetSys(n, filesys, t) ELSE t, overflow |-> FALSE]

sync(filesys, n, t) == syncNode(filesys, n, [t |-> t, overflow |-> FALSE], 1)

\* Dir.With: add the nodes to the directory's map, each under its name.
RECURSIVE dirWith(_, _, _)
dirWith(d, nodes, t) ==
    IF Len(nodes) = 0 THEN t
    ELSE dirWith(d, Tail(nodes),
              [t EXCEPT !.files[d] = MapSet(@, Name(nodes[1]), nodes[1])])

\* pathElements
pathElements(path) ==
    LET e == Tail(StringsSplit(Clean(path)))
    IN  IF Len(e) = 1 /\ Len(e[1]) = 0 THEN <<>> ELSE e

\* walkPath: the node a path leads to from d, and an error. A missing last
\* element yields the containing directory together with ENOENT.
\* One turn of walkPath's loop without the error for a missing last element:
\* the containing directory is returned as if it were the target.
walkStepNoError(d, op, path, elements, i, t) ==
    LET e == elements[i]
    IN  IF e \notin DOMAIN t.files[d]
        THEN IF i < Len(elements)
             THEN [done |-> TRUE, node |-> Nil, err |-> PathError(op, path, "ENOENT")]
             ELSE [done |-> TRUE, node |-> d, err |-> NoError]
        ELSE LET n == t.files[d][e]
             IN  IF i = Len(elements) THEN [done |-> TRUE, node |-> n, err |-> NoError]
                 ELSE IF Kind(n) # "Dir"
                      THEN [done |-> TRUE, node |-> Nil, err |-> PathError(op, path, "ENOTDIR")]
                      ELSE [done |-> FALSE, node |-> n, err |-> NoError]

\* One turn of walkPath's loop, at element i (1-based) in directory d: either
\* the walk is done, with the node and error to return, or it goes on in the
\* directory found.
walkStep(d, op, path, elements, i, t) ==
    LET e == elements[i]
    IN  IF e \notin DOMAIN t.files[d]
        THEN IF i < Len(elements)
             THEN [done |-> TRUE, node |-> Nil, err |-> PathError(op, path, "ENOENT")]
             ELSE [done |-> TRUE, node |-> d, err |-> PathError(op, path, "ENOENT")]
        ELSE LET n == t.files[d][e]
             IN  IF i = Len(elements) THEN [done |-> TRUE, node |-> n, err |-> NoError]
                 ELSE IF Kind(n) # "Dir"
                      THEN [done |-> TRUE, node |-> Nil, err |-> PathError(op, path, "ENOTDIR")]
                      ELSE [done |-> FALSE, node |-> n, err |-> NoError]

RECURSIVE walkFrom(_, _, _, _, _, _)
walkFrom(d, op, path, elements, i, t) ==
    LET s == walkStep(d, op, path, elements, i, t)
    IN  IF s.done THEN [node |-> s.node, err |-> s.err]
        ELSE walkFrom(s.node, op, path, elements, i + 1, t)

walkPath(d, op, path, t) ==
    LET elements == pathElements(path)
    IN  IF Len(elements) = 0 THEN [node |-> d, err |-> NoError]
        ELSE walkFrom(d, op, path, elements, 1, t)

\* The result of an operation: the heap it leaves, the node and the error it
\* returns, and the fault ("none" if it returned). A fault ends the program:
\* the heap of a faulted result is the heap before the call.
Result(t, ret, err, flt) == [t |-> t, ret |-> ret, err |-> err, fault |-> flt]

\* An attach that inserts the node and leaves the back-references alone.
attachNoSync(d, n, t) ==
    Result([t EXCEPT !.files[d] = MapSet(@, Name(n), n)], Nil, NoError, "none")

\* The end of FileSystem.bind: insert the node in the directory's map under
\* its name and sync from the directory.
attach(d, n, t) ==
    LET t1 == [t EXCEPT !.files[d] = MapSet(@, Name(n), n)]
        r == sync(FS, d, t1)
    IN  IF r.overflow THEN Result(t, Nil, NoError, "stack overflow")
        ELSE Result(r.t, Nil, NoError, "none")

\* FileSystem.bind
bind(dir, n, t) ==
    LET cdir == Clean(dir)
        w == walkPath("root", "open", cdir, t)
    IN  IF IsNotExist(w.err)
        THEN Result(t, Nil, PathError("open", cdir, "ENOENT"), "none")
        ELSE IF w.node = Nil \/ Kind(w.node) # "Dir"
        THEN \* d.(*Dir) on a nil interface or on a file node
             Result(t, Nil, NoError, "panic: interface conversion")
        ELSE attach(w.node, n, t)

\* A detach that removes the child and leaves its back-reference alone.
detachNoSync(d, name, t) ==
    Result([t EXCEPT !.files[d] = MapDelete(@, name)], t.files[d][name], NoError, "none")

\* The end of FileSystem.Unbind: delete the child from the directory's map,
\* clear the back-references of its subtree and return it.
detach(d, name, t) ==
    LET node == t.files[d][name]
        t1 == [t EXCEPT !.files[d] = MapDelete(@, name)]
        r == sync(nofs, node, t1)
    IN  IF r.overflow THEN Result(t, Nil, NoError, "stack overflow")
        ELSE Result(r.t, node, NoError, "none")

\* FileSystem.Unbind
unbind(upath, t) ==
    LET path == Clean(upath)
    IN  IF Len(path) = 0 /\ path[1] = SEP
        THEN Result(t, Nil, PathError("unbind", path, "EINVAL"), "none")
        ELSE LET sp == FilepathSplit(path)
                 w == walkPath("root", "unbind", sp.dir, t)
             IN  IF w.err # NoError THEN Result(t, Nil, w.err, "none")
                 ELSE IF Kind(w.node) # "Dir"
                 THEN \* n.(*Dir) on a file node
                      Result(t, Nil, NoError, "panic: interface conversion")
                 ELSE IF sp.file \notin DOMAIN t.files[w.node]
                 THEN Result(t, Nil, PathError("unbind", path, "ENOENT"), "none")
                 ELSE detach(w.node, sp.file, t)

\* FileSystem.Sync
fsSync(t) ==
    LET r == sync(FS, "root", t)
    IN  IF r.overflow THEN Result(t, Nil, NoError, "stack overflow")
        ELSE Result(r.t, Nil, NoError, "none")

\* fuse.ENOENT, the error of a Lookup that finds no child.
ENOENT == PathError("", <<>>, "ENOENT")

\* Dir.Lookup: read the map, stamp atime from d.fs.now(), return the child
\* or ENOENT.
lookup(d, name, t) ==
    IF t.fs[d] = nofs THEN Result(t, Nil, NoError, "panic: nil pointer dereference")
    ELSE LET t1 == [t EXCEPT !.atime[d] = now]
         IN  IF name \in DOMAIN t.files[d]
             THEN Result(t1, t.files[d][name], NoError, "none")
             ELSE Result(t1, Nil, ENOENT, "none")

\* fuse.Dirent{Inode: attr.Inode, Name: name}; no Attr method sets the inode.
Dirent(name) == [Inode |-> 0, Name |-> name]

\* The error of f.Attr: Dir.Attr returns nil, and the Attr of a file returns
\* the error of its backend's Size, which is nil for Bytes, String and Func.
AttrErr(f) == NoError

\* The loop of Dir.ReadDirAll over the map, in the order the range takes:
\* f.Attr of every child, under the child's mu, and one entry per key; an
\* error of Attr ends the loop. A directory that is its own child waits for
\* the mu it holds.
RECURSIVE readDirEntries(_, _, _)
readDirEntries(d, order, t) ==
    IF Len(order) = 0 THEN [entries |-> <<>>, blocked |-> FALSE, err |-> NoError]
    ELSE IF t.files[d][Head(order)] = d
    THEN [entries |-> <<>>, blocked |-> TRUE, err |-> NoError]
    ELSE IF AttrErr(t.files[d][Head(order)]) # NoError
    THEN [entries |-> <<>>, blocked |-> FALSE, err |-> AttrErr(t.files[d][Head(order)])]
    ELSE LET rest == readDirEntries(d, Tail(order), t)
         IN  [entries |-> <<Dirent(Head(order))>> \o rest.entries, blocked |-> rest.blocked,
              err |-> rest.err]

\* A ReadDirAll that returns after the first entry.
readDirAllFirstEntry(d, order, t) ==
    LET r == readDirEntries(d, IF Len(order) = 0 THEN order ELSE <<Head(order)>>, t)
    IN  IF r.blocked THEN Result(t, <<>>, NoError, "deadlock")
        ELSE IF r.err # NoError THEN Result(t, r.entries, r.err, "none")
        ELSE IF t.fs[d] = nofs THEN Result(t, <<>>, NoError, "panic: nil pointer dereference")
        ELSE Result([t EXCEPT !.atime[d] = now], r.entries, NoError, "none")

\* Dir.ReadDirAll: the entries, then atime from d.fs.now().
readDirAll(d, order, t) ==
    LET r == readDirEntries(d, order, t)
    IN  IF r.blocked THEN Result(t, <<>>, NoError, "deadlock")
        ELSE IF r.err # NoError THEN Result(t, r.entries, r.err, "none")
        ELSE IF t.fs[d] = nofs THEN Result(t, <<>>, NoError, "panic: nil pointer dereference")
        ELSE Result([t EXCEPT !.atime[d] = now], r.entries, NoError, "none")

\* The orders a range over a map with these keys may take.
Orders(keys) ==
    {o \in [1..Cardinality(keys) -> keys] : \A i, j \in DOMAIN o : i # j => o[i] # o[j]}

-----------------------------------------------------------------------------
(* Inputs *)

\* The paths the hosting program passes to Bind and Unbind.
PathInputs ==
    { <<"/">>,
      <<"/", "a">>,
      <<"/", "a", "/", "f">>,
      <<"/", "a", "/", "b">>,
      <<"/", "a", "/", "f", "/", "b">>,
      <<"/", "z">>,
      <<"/", "z", "/", "b">>,
      <<"/", "a", "/", ".", ".", "/", "b", "/">> }

\* The argument lists passed to With.
WithInputs == {<<n>> : n \in Nodes}

-----------------------------------------------------------------------------
(* Construction *)

EmptyMap == [k \in {} |-> Nil]

\* The heap after the nodes are constructed (NewDir, NewRO, NewRW) and
\* NewFileSystem has made "root" the root of the file system at time c.
NewFileSystem(c) ==
    [files |-> [d \in Dirs |-> EmptyMap],
     fs    |-> [n \in Nodes |-> IF n = "root" THEN FS ELSE nofs],
     atime |-> [n \in Nodes |-> IF n = "root" THEN c ELSE ZeroTime],
     mtime |-> [n \in Nodes |-> IF n = "root" THEN c ELSE ZeroTime],
     ctime |-> [n \in Nodes |-> IF n = "root" THEN c ELSE ZeroTime]]

\* A tree composed the way the test fixture sysfs composes one, before its
\* final Sync: /a/f and /b; g is constructed and not in the tree.
Composed(c) ==
    dirWith("root", <<"a", "b">>, dirWith("a", <<"f">>, NewFileSystem(c)))

\* The fixture itself: the composed tree after its Sync.
Fixture(c) == sync(FS, "root", Composed(c)).t

Call(op, path, args, res) ==
    [op |-> op, path |-> path, args |-> args, ret |-> res.ret, err |-> res.err,
     pre |-> Tree]

\* The heap is t.
Install0(t) ==
    /\ files = t.files
    /\ fs = t.fs
    /\ atime = t.atime
    /\ mtime = t.mtime
    /\ ctime = t.ctime

Install(t) ==
    /\ files' = t.files
    /\ fs' = t.fs
    /\ atime' = t.atime
    /\ mtime' = t.mtime
    /\ ctime' = t.ctime

\* The locals of a goroutine that is in no call.
IdleLoc ==
    [op |-> "none", path |-> <<>>, n |-> Nil, name |-> <<>>, d |-> Nil, node |-> Nil,
     elems |-> <<>>, i |-> 0, stack |-> <<>>, filesys |-> nofs, seen |-> {}, must |-> {},
     ret |-> Nil, err |-> NoError, flt |-> "none"]

\* A node that has not been constructed, a nil backend and no request.
NoNode ==
    [kind |-> "none", name |-> <<>>, mode |-> {}, uid |-> 0, gid |-> 0,
     atime |-> ZeroTime, mtime |-> ZeroTime, ctime |-> ZeroTime, fs |-> nofs]
NoDev == [type |-> "nil", arr |-> <<>>, len |-> 0, fn |-> Nil, log |-> <<>>]
NoRequest == [op |-> "none"]

NoObject ==
    /\ obj = NoNode
    /\ dev = NoDev
    /\ resp = NoRequest

NoGoroutines ==
    /\ mu = Nil
    /\ nmu = [n \in Nodes |-> Nil]
    /\ pc = [p \in Procs |-> "idle"]
    /\ loc = [p \in Procs |-> IdleLoc]
    /\ acc = [p \in Procs |-> {}]
    /\ calls = [p \in Procs |-> 0]

Init ==
    /\ now = 1
    /\ fault = "none"
    /\ steps = 0
    /\ NoGoroutines
    /\ NoObject
    /\ \E t \in {NewFileSystem(1), Composed(1), Fixture(1)} :
          /\ files = t.files
          /\ fs = t.fs
          /\ atime = t.atime
          /\ mtime = t.mtime
          /\ ctime = t.ctime
          /\ last = [op |-> "NewFileSystem", path |-> <<>>, args |-> <<>>, ret |-> Nil,
                     err |-> NoError, pre |-> t]

-----------------------------------------------------------------------------
(* Operations of the hosting program, each called and run to its end *)

Running == fault = "none" /\ steps < MaxSteps

Finish(op, path, args, res) ==
    /\ Install(res.t)
    /\ fault' = res.fault
    /\ last' = Call(op, path, args, res)
    /\ steps' = steps + 1
    /\ UNCHANGED <<now, goroutines, object>>

\* Dir.With on any directory the program holds (FileSystem.With is Dir.With
\* on the root).
With ==
    /\ Running
    /\ \E d \in Dirs, nodes \in WithInputs :
          Finish("With", Name(d), nodes, Result(dirWith(d, nodes, Tree), d, NoError, "none"))

Sync ==
    /\ Running
    /\ Finish("Sync", <<>>, <<>>, fsSync(Tree))

Bind ==
    /\ Running
    /\ \E dir \in PathInputs, n \in Nodes :
          Finish("Bind", dir, <<n>>, bind(dir, n, Tree))

Unbind ==
    /\ Running
    /\ \E path \in PathInputs :
          Finish("Unbind", path, <<>>, unbind(path, Tree))

\* The injected clock advances.
Tick ==
    /\ fault = "none"
    /\ now < MaxClock
    /\ now' = now + 1
    /\ UNCHANGED <<heap, fault, last, object, steps, goroutines>>

Next == With \/ Sync \/ Bind \/ Unbind \/ Tick

Spec == Init /\ [][Next]_vars

\* The program that changes a composed tree through Bind and Unbind only.
NextBind == Bind \/ Unbind \/ Tick

SpecBind == Init /\ [][NextBind]_vars

LookupNames == {<<"a">>, <<"f">>, <<"z">>}

\* Dir.Lookup, as the protocol engine calls it on a directory it holds.
Lookup ==
    /\ Running
    /\ \E d \in Dirs, name \in LookupNames :
          Finish("Lookup", name, <<d>>, lookup(d, name, Tree))

\* Dir.ReadDirAll, as the protocol engine calls it on a directory it holds.
ReadDirAll ==
    /\ Running
    /\ \E d \in Dirs :
          \E order \in Orders(DOMAIN files[d]) :
              Finish("ReadDirAll", <<>>, <<d>>, readDirAll(d, order, Tree))

\* The program and the protocol engine's directory requests, one at a time.
NextDir == With \/ Sync \/ Bind \/ Unbind \/ Lookup \/ ReadDirAll \/ Tick

SpecDir == Init /\ [][NextDir]_vars

-----------------------------------------------------------------------------
(* Concurrent callers: every call is a sequence of steps, one per lock      *)
(* operation and per access to a directory's map. An access to a map is     *)
(* begun in one step and ended in a later one; a range over a map is an     *)
(* access that lasts as long as the loop.                                   *)

\* The calls the goroutines make.
ConcPaths == {<<"/", "a">>, <<"/", "a", "/", "f">>, <<"/", "z">>}
ConcNodes == {"g", "a"}
ConcHandles == {"root", "a"}
ConcNames == {<<"f">>}

InitConc ==
    /\ now = 1
    /\ fault = "none"
    /\ steps = 0
    /\ NoGoroutines
    /\ NoObject
    /\ Install0(Fixture(1))
    /\ last = [op |-> "NewFileSystem", path |-> <<>>, args |-> <<>>, ret |-> Nil,
               err |-> NoError, pre |-> Fixture(1)]

\* A call of sync(n): where it is (at its n.Sys(), its n.SetSys(fs), its type
\* test or in its range), and for the range the keys it has produced and the
\* keys that were in the map when it began.
Frame(n) == [node |-> n, at |-> "sys", seen |-> {}, must |-> {}]

\* A range over the map of directory d reads the map as it is: it may
\* produce any entry it has not produced, and it may end when it has produced
\* every entry that was there when it began and is still there. An entry
\* created while it runs may be produced or skipped.
Producible(d, seen) == DOMAIN files[d] \ seen
RangeMayEnd(d, seen, must) == (must \cap DOMAIN files[d]) \ seen = {}

Access(d, kind) == [dir |-> d, kind |-> kind]

\* sync.Mutex.Lock returns only when the mutex is free.
MutexFree(holder) == holder = Nil

\* fs.mu.Lock() of Sync, Bind and Unbind.
fsMuIgnored(p) == mu' = p
fsMuLock(p) == MutexFree(mu) /\ mu' = p

At(p, label) == fault = "none" /\ pc[p] = label
Goto(p, label) == pc' = [pc EXCEPT ![p] = label]
Callable(p) == fault = "none" /\ pc[p] \in {"idle", "done"} /\ calls[p] < MaxCalls
Called(p) == calls' = [calls EXCEPT ![p] = @ + 1]

CallBind(p) ==
    /\ Callable(p)
    /\ \E dir \in ConcPaths, n \in ConcNodes :
          loc' = [loc EXCEPT ![p] = [IdleLoc EXCEPT !.op = "Bind", !.path = dir, !.n = n]]
    /\ Goto(p, "lock")
    /\ Called(p)
    /\ UNCHANGED <<heap, now, fault, last, object, steps, mu, nmu, acc>>

\* Unbind cleans the path and tests its guard before it takes the lock.
CallUnbind(p) ==
    /\ Callable(p)
    /\ \E upath \in ConcPaths :
          LET path == Clean(upath)
          IN  IF Len(path) = 0 /\ path[1] = SEP
              THEN /\ loc' = [loc EXCEPT ![p] =
                         [IdleLoc EXCEPT !.op = "Unbind", !.path = path,
                                         !.err = PathError("unbind", path, "EINVAL")]]
                   /\ Goto(p, "done")
              ELSE /\ loc' = [loc EXCEPT ![p] =
                         [IdleLoc EXCEPT !.op = "Unbind", !.path = path]]
                   /\ Goto(p, "lock")
    /\ Called(p)
    /\ UNCHANGED <<heap, now, fault, last, object, steps, mu, nmu, acc>>

CallSync(p) ==
    /\ Callable(p)
    /\ loc' = [loc EXCEPT ![p] = [IdleLoc EXCEPT !.op = "Sync"]]
    /\ Goto(p, "lock")
    /\ Called(p)
    /\ UNCHANGED <<heap, now, fault, last, object, steps, mu, nmu, acc>>

\* Dir.Lookup on a directory the protocol engine holds a handle to.
CallLookup(p) ==
    /\ Callable(p)
    /\ \E d \in ConcHandles, name \in ConcNames :
          loc' = [loc EXCEPT ![p] = [IdleLoc EXCEPT !.op = "Lookup", !.d = d, !.name = name]]
    /\ Goto(p, "dlock")
    /\ Called(p)
    /\ UNCHANGED <<heap, now, fault, last, object, steps, mu, nmu, acc>>

\* Dir.ReadDirAll on a directory the protocol engine holds a handle to.
CallReadDirAll(p) ==
    /\ Callable(p)
    /\ \E d \in ConcHandles :
          loc' = [loc EXCEPT ![p] = [IdleLoc EXCEPT !.op = "ReadDirAll", !.d = d]]
    /\ Goto(p, "dlock")
    /\ Called(p)
    /\ UNCHANGED <<heap, now, fault, last, object, steps, mu, nmu, acc>>

\* Dir.With: the write to the map begins, with no lock taken.
CallWith(p) ==
    /\ Callable(p)
    /\ \E d \in ConcHandles, n \in ConcNodes :
          /\ loc' = [loc EXCEPT ![p] = [IdleLoc EXCEPT !.op = "With", !.d = d, !.n = n]]
          /\ acc' = [acc EXCEPT ![p] = {Access(d, "w")}]
    /\ Goto(p, "withend")
    /\ Called(p)
    /\ UNCHANGED <<heap, now, fault, last, object, steps, mu, nmu>>

WithEnd(p) ==
    /\ At(p, "withend")
    /\ files' = [files EXCEPT ![loc[p].d] = MapSet(@, Name(loc[p].n), loc[p].n)]
    /\ acc' = [acc EXCEPT ![p] = {}]
    /\ loc' = [loc EXCEPT ![p].ret = loc[p].d]
    /\ Goto(p, "done")
    /\ UNCHANGED <<fs, atime, mtime, ctime, now, fault, last, object, steps, mu, nmu, calls>>

\* Sync, Bind, Unbind: fs.mu.Lock(), and what each does up to its first
\* access to a map.
fsLock(p) ==
    /\ At(p, "lock")
    /\ fsMuLock(p)
    /\ CASE loc[p].op = "Bind" ->
              /\ loc' = [loc EXCEPT ![p].path = Clean(loc[p].path),
                                    ![p].elems = pathElements(Clean(loc[p].path)),
                                    ![p].d = "root", ![p].i = 1]
              /\ Goto(p, "walk")
         [] loc[p].op = "Unbind" ->
              LET sp == FilepathSplit(loc[p].path)
              IN  /\ loc' = [loc EXCEPT ![p].elems = pathElements(sp.dir),
                                        ![p].name = sp.file,
                                        ![p].d = "root", ![p].i = 1]
                  /\ Goto(p, "walk")
         [] loc[p].op = "Sync" ->
              /\ loc' = [loc EXCEPT ![p].stack = <<Frame("root")>>, ![p].filesys = FS]
              /\ Goto(p, "sync")
    /\ UNCHANGED <<heap, now, fault, last, object, steps, nmu, acc, calls>>

\* walkPath with no elements: the root itself.
WalkRoot(p) ==
    /\ At(p, "walk")
    /\ Len(loc[p].elems) = 0
    /\ loc' = [loc EXCEPT ![p].node = loc[p].d, ![p].err = NoError]
    /\ Goto(p, "walked")
    /\ UNCHANGED <<heap, now, fault, last, object, steps, mu, nmu, acc, calls>>

\* walkPath: the read d.files[e] begins.
Walk(p) ==
    /\ At(p, "walk")
    /\ Len(loc[p].elems) > 0
    /\ acc' = [acc EXCEPT ![p] = {Access(loc[p].d, "r")}]
    /\ Goto(p, "walkread")
    /\ UNCHANGED <<heap, now, fault, last, object, steps, mu, nmu, loc, calls>>

\* walkPath: the read d.files[e] ends, and the loop turns.
WalkRead(p) ==
    /\ At(p, "walkread")
    /\ LET l == loc[p]
           s == walkStep(l.d, IF l.op = "Bind" THEN "open" ELSE "unbind",
                         IF l.op = "Bind" THEN l.path ELSE FilepathSplit(l.path).dir,
                         l.elems, l.i, Tree)
       IN  IF s.done
           THEN /\ loc' = [loc EXCEPT ![p].node = s.node, ![p].err = s.err]
                /\ Goto(p, "walked")
           ELSE /\ loc' = [loc EXCEPT ![p].d = s.node, ![p].i = l.i + 1]
                /\ Goto(p, "walk")
    /\ acc' = [acc EXCEPT ![p] = {}]
    /\ UNCHANGED <<heap, now, fault, last, object, steps, mu, nmu, calls>>

\* bind after walkPath: return ENOENT, panic in d.(*Dir), or begin the write
\* d.files[n.Name()] = n.
BindWalked(p) ==
    /\ At(p, "walked")
    /\ loc[p].op = "Bind"
    /\ LET l == loc[p]
       IN  IF IsNotExist(l.err)
           THEN /\ loc' = [loc EXCEPT ![p].err = PathError("open", l.path, "ENOENT")]
                /\ Goto(p, "unlock")
                /\ UNCHANGED acc
           ELSE IF l.node = Nil \/ Kind(l.node) # "Dir"
           THEN /\ loc' = [loc EXCEPT ![p].err = NoError,
                                      ![p].flt = "panic: interface conversion"]
                /\ Goto(p, "unlock")
                /\ UNCHANGED acc
           ELSE /\ loc' = [loc EXCEPT ![p].d = l.node, ![p].err = NoError]
                /\ acc' = [acc EXCEPT ![p] = {Access(l.node, "w")}]
                /\ Goto(p, "insert")
    /\ UNCHANGED <<heap, now, fault, last, object, steps, mu, nmu, calls>>

\* bind: the write d.files[n.Name()] = n ends; fs.sync(d) is called.
Insert(p) ==
    /\ At(p, "insert")
    /\ files' = [files EXCEPT ![loc[p].d] = MapSet(@, Name(loc[p].n), loc[p].n)]
    /\ acc' = [acc EXCEPT ![p] = {}]
    /\ loc' = [loc EXCEPT ![p].stack = <<Frame(loc[p].d)>>, ![p].filesys = FS]
    /\ Goto(p, "sync")
    /\ UNCHANGED <<fs, atime, mtime, ctime, now, fault, last, object, steps, mu, nmu, calls>>

\* Unbind after walkPath: return the error, panic in n.(*Dir), or begin the
\* read d.files[name].
UnbindWalked(p) ==
    /\ At(p, "walked")
    /\ loc[p].op = "Unbind"
    /\ LET l == loc[p]
       IN  IF l.err # NoError
           THEN /\ Goto(p, "unlock")
                /\ UNCHANGED <<loc, acc>>
           ELSE IF Kind(l.node) # "Dir"
           THEN /\ loc' = [loc EXCEPT ![p].flt = "panic: interface conversion"]
                /\ Goto(p, "unlock")
                /\ UNCHANGED acc
           ELSE /\ loc' = [loc EXCEPT ![p].d = l.node]
                /\ acc' = [acc EXCEPT ![p] = {Access(l.node, "r")}]
                /\ Goto(p, "ubread")
    /\ UNCHANGED <<heap, now, fault, last, object, steps, mu, nmu, calls>>

\* Unbind: the read d.files[name] ends; return ENOENT, or begin the delete.
UnbindRead(p) ==
    /\ At(p, "ubread")
    /\ LET l == loc[p]
       IN  IF l.name \notin DOMAIN files[l.d]
           THEN /\ loc' = [loc EXCEPT ![p].err = PathError("unbind", l.path, "ENOENT")]
                /\ acc' = [acc EXCEPT ![p] = {}]
                /\ Goto(p, "unlock")
           ELSE /\ loc' = [loc EXCEPT ![p].node = files[l.d][l.name]]
                /\ acc' = [acc EXCEPT ![p] = {Access(l.d, "w")}]
                /\ Goto(p, "ubdelete")
    /\ UNCHANGED <<heap, now, fault, last, object, steps, mu, nmu, calls>>

\* Unbind: delete(d.files, name) ends; nofs.sync(node) is called.
UnbindDelete(p) ==
    /\ At(p, "ubdelete")
    /\ files' = [files EXCEPT ![loc[p].d] = MapDelete(@, loc[p].name)]
    /\ acc' = [acc EXCEPT ![p] = {}]
    /\ loc' = [q \in Procs |->
                 IF q = p
                 THEN [loc[p] EXCEPT !.stack = <<Frame(loc[p].node)>>, !.filesys = nofs,
                                     !.ret = loc[p].node]
                 ELSE IF pc[q] \in {"rdrange", "rdattr"} /\ loc[q].d = loc[p].d
                 THEN \* a range in progress will not produce the removed entry
                      [loc[q] EXCEPT !.must = @ \ {loc[p].name}]
                 ELSE loc[q]]
    /\ Goto(p, "sync")
    /\ UNCHANGED <<fs, atime, mtime, ctime, now, fault, last, object, steps, mu, nmu, calls>>

Top(p) == loc[p].stack[Len(loc[p].stack)]
SetTop(p, frame) == [loc[p].stack EXCEPT ![Len(loc[p].stack)] = frame]
Pop(p) == SubSeq(loc[p].stack, 1, Len(loc[p].stack) - 1)

\* sync(n) is entered: n.Sys(), which takes n.mu, reads n.fs and releases
\* n.mu.
SyncSys(p) ==
    /\ At(p, "sync")
    /\ Len(loc[p].stack) > 0
    /\ Top(p).at = "sys"
    /\ MutexFree(nmu[Top(p).node])
    /\ loc' = [loc EXCEPT ![p].stack =
                  SetTop(p, [Top(p) EXCEPT !.at = IF fs[Top(p).node] # loc[p].filesys
                                                  THEN "setsys" ELSE "type"])]
    /\ UNCHANGED <<heap, pc, now, fault, last, object, steps, mu, nmu, acc, calls>>

\* sync: n.SetSys(fs), which takes n.mu again, writes n.fs and the three
\* times and releases n.mu.
SyncSetSys(p) ==
    /\ At(p, "sync")
    /\ Len(loc[p].stack) > 0
    /\ Top(p).at = "setsys"
    /\ MutexFree(nmu[Top(p).node])
    /\ Install(SetSys(Top(p).node, loc[p].filesys, Tree))
    /\ loc' = [loc EXCEPT ![p].stack = SetTop(p, [Top(p) EXCEPT !.at = "type"])]
    /\ UNCHANGED <<pc, now, fault, last, object, steps, mu, nmu, acc, calls>>

\* sync: the type test; a file returns, for a directory the range over its
\* map begins.
SyncRange(p) ==
    /\ At(p, "sync")
    /\ Len(loc[p].stack) > 0
    /\ Top(p).at = "type"
    /\ LET n == Top(p).node
       IN  IF Kind(n) = "Dir"
           THEN /\ acc' = [acc EXCEPT ![p] = @ \cup {Access(n, "r")}]
                /\ loc' = [loc EXCEPT ![p].stack =
                              SetTop(p, [node |-> n, at |-> "range", seen |-> {},
                                         must |-> DOMAIN files[n]])]
           ELSE /\ loc' = [loc EXCEPT ![p].stack = Pop(p)]
                /\ UNCHANGED acc
    /\ UNCHANGED <<heap, pc, now, fault, last, object, steps, mu, nmu, calls>>

\* sync: the range produces an entry of the map and sync(f) is called; a
\* recursion deeper than the stack allows ends the program.
SyncDescend(p) ==
    /\ At(p, "sync")
    /\ Len(loc[p].stack) > 0
    /\ Top(p).at = "range"
    /\ \E k \in Producible(Top(p).node, Top(p).seen) :
          IF Len(loc[p].stack) + 1 > StackLimit
          THEN /\ fault' = "stack overflow"
               /\ UNCHANGED loc
          ELSE /\ loc' = [loc EXCEPT ![p].stack =
                             Append(SetTop(p, [Top(p) EXCEPT !.seen = @ \cup {k}]),
                                    Frame(files[Top(p).node][k]))]
               /\ UNCHANGED fault
    /\ UNCHANGED <<heap, pc, now, last, object, steps, mu, nmu, acc, calls>>

\* sync: the range over a directory's map ends and sync returns.
SyncReturn(p) ==
    /\ At(p, "sync")
    /\ Len(loc[p].stack) > 0
    /\ Top(p).at = "range"
    /\ RangeMayEnd(Top(p).node, Top(p).seen, Top(p).must)
    /\ acc' = [acc EXCEPT ![p] = @ \ {Access(Top(p).node, "r")}]
    /\ loc' = [loc EXCEPT ![p].stack = Pop(p)]
    /\ UNCHANGED <<heap, pc, now, fault, last, object, steps, mu, nmu, calls>>

\* The outermost sync has returned.
SyncDone(p) ==
    /\ At(p, "sync")
    /\ Len(loc[p].stack) = 0
    /\ Goto(p, "unlock")
    /\ UNCHANGED <<heap, now, fault, last, object, steps, mu, nmu, loc, acc, calls>>

\* fs.mu.Unlock(), deferred in Bind and Unbind.
fsUnlock(p) ==
    /\ At(p, "unlock")
    /\ mu' = Nil
    /\ Goto(p, "done")
    /\ UNCHANGED <<heap, now, fault, last, object, steps, nmu, loc, acc, calls>>

\* Lookup, ReadDirAll: d.mu.Lock(), and the access to d.files begins.
dLock(p) ==
    /\ At(p, "dlock")
    /\ MutexFree(nmu[loc[p].d])
    /\ nmu' = [nmu EXCEPT ![loc[p].d] = p]
    /\ acc' = [acc EXCEPT ![p] = {Access(loc[p].d, "r")}]
    /\ IF loc[p].op = "Lookup"
       THEN /\ Goto(p, "lkread")
            /\ UNCHANGED loc
       ELSE /\ Goto(p, "rdrange")
            /\ loc' = [loc EXCEPT ![p].seen = {}, ![p].must = DOMAIN files[loc[p].d]]
    /\ UNCHANGED <<heap, now, fault, last, object, steps, mu, calls>>

\* Lookup: the read d.files[name] ends; d.atime = d.fs.now().
LookupRead(p) ==
    /\ At(p, "lkread")
    /\ LET l == loc[p]
           ok == l.name \in DOMAIN files[l.d]
       IN  IF fs[l.d] = nofs
           THEN /\ loc' = [loc EXCEPT ![p].flt = "panic: nil pointer dereference"]
                /\ UNCHANGED atime
           ELSE /\ atime' = [atime EXCEPT ![l.d] = now]
                /\ loc' = [loc EXCEPT ![p].ret = IF ok THEN files[l.d][l.name] ELSE Nil,
                                      ![p].err = IF ok THEN NoError
                                                 ELSE PathError("", <<>>, "ENOENT")]
    /\ acc' = [acc EXCEPT ![p] = {}]
    /\ Goto(p, "dunlock")
    /\ UNCHANGED <<files, fs, mtime, ctime, now, fault, last, object, steps, mu, nmu, calls>>

\* ReadDirAll: the range produces an entry of the map.
ReadDirNext(p) ==
    /\ At(p, "rdrange")
    /\ \E k \in Producible(loc[p].d, loc[p].seen) :
          loc' = [loc EXCEPT ![p].name = k, ![p].node = files[loc[p].d][k],
                             ![p].seen = @ \cup {k}]
    /\ Goto(p, "rdattr")
    /\ UNCHANGED <<heap, now, fault, last, object, steps, mu, nmu, acc, calls>>

\* ReadDirAll: f.Attr, which takes f.mu, copies the attributes and releases
\* f.mu; its error ends the call, else the entry is appended.
ReadDirAttr(p) ==
    /\ At(p, "rdattr")
    /\ MutexFree(nmu[loc[p].node])
    /\ IF AttrErr(loc[p].node) # NoError
       THEN /\ loc' = [loc EXCEPT ![p].err = AttrErr(loc[p].node)]
            /\ acc' = [acc EXCEPT ![p] = {}]
            /\ Goto(p, "dunlock")
       ELSE /\ Goto(p, "rdrange")
            /\ UNCHANGED <<loc, acc>>
    /\ UNCHANGED <<heap, now, fault, last, object, steps, mu, nmu, calls>>

\* ReadDirAll: the range ends; d.atime = d.fs.now().
ReadDirEnd(p) ==
    /\ At(p, "rdrange")
    /\ RangeMayEnd(loc[p].d, loc[p].seen, loc[p].must)
    /\ IF fs[loc[p].d] = nofs
       THEN /\ loc' = [loc EXCEPT ![p].flt = "panic: nil pointer dereference"]
            /\ UNCHANGED atime
       ELSE /\ atime' = [atime EXCEPT ![loc[p].d] = now]
            /\ UNCHANGED loc
    /\ acc' = [acc EXCEPT ![p] = {}]
    /\ Goto(p, "dunlock")
    /\ UNCHANGED <<files, fs, mtime, ctime, now, fault, last, object, steps, mu, nmu, calls>>

\* d.mu.Unlock(), deferred in Lookup and ReadDirAll.
dUnlock(p) ==
    /\ At(p, "dunlock")
    /\ nmu' = [nmu EXCEPT ![loc[p].d] = Nil]
    /\ Goto(p, "done")
    /\ UNCHANGED <<heap, now, fault, last, object, steps, mu, loc, acc, calls>>

\* Two goroutines are in an access to the same map, one of them writing.
MapRace ==
    \E p, q \in Procs : p # q /\
        \E x \in acc[p], y \in acc[q] : x.dir = y.dir /\ "w" \in {x.kind, y.kind}

\* The Go runtime detects the concurrent access to a map and ends the program.
RaceFault ==
    /\ fault = "none"
    /\ MapRace
    /\ fault' = "concurrent map read and map write"
    /\ UNCHANGED <<heap, now, last, object, steps, goroutines>>

NextConc ==
    \/ \E p \in Procs :
          \/ CallBind(p) \/ CallUnbind(p) \/ CallSync(p)
          \/ CallLookup(p) \/ CallReadDirAll(p) \/ CallWith(p) \/ WithEnd(p)
          \/ fsLock(p) \/ WalkRoot(p) \/ Walk(p) \/ WalkRead(p)
          \/ BindWalked(p) \/ Insert(p)
          \/ UnbindWalked(p) \/ UnbindRead(p) \/ UnbindDelete(p)
          \/ SyncSys(p) \/ SyncSetSys(p) \/ SyncRange(p)
          \/ SyncDescend(p) \/ SyncReturn(p) \/ SyncDone(p)
          \/ fsUnlock(p)
          \/ dLock(p) \/ LookupRead(p) \/ dUnlock(p)
          \/ ReadDirNext(p) \/ ReadDirAttr(p) \/ ReadDirEnd(p)
    \/ RaceFault

SpecConc == InitConc /\ [][NextConc]_vars

\* The served file system: the hosting program changes the tree through
\* Bind, Unbind and Sync only, while the protocol engine's workers call
\* Lookup and ReadDirAll on the directories they hold.
NextServe ==
    \/ \E p \in Procs :
          \/ CallBind(p) \/ CallUnbind(p) \/ CallSync(p)
          \/ CallLookup(p) \/ CallReadDirAll(p)
          \/ fsLock(p) \/ WalkRoot(p) \/ Walk(p) \/ WalkRead(p)
          \/ BindWalked(p) \/ Insert(p)
          \/ UnbindWalked(p) \/ UnbindRead(p) \/ UnbindDelete(p)
          \/ SyncSys(p) \/ SyncSetSys(p) \/ SyncRange(p)
          \/ SyncDescend(p) \/ SyncReturn(p) \/ SyncDone(p)
          \/ fsUnlock(p)
          \/ dLock(p) \/ LookupRead(p) \/ dUnlock(p)
          \/ ReadDirNext(p) \/ ReadDirAttr(p) \/ ReadDirEnd(p)
    \/ RaceFault

SpecServe == InitConc /\ [][NextServe]_vars

-----------------------------------------------------------------------------
(* One node: its constructors, its attributes and its data backend.        *)
(* An os.FileMode is modelled as the set of its bits, so that mode | m is   *)
(* a union and mode &^ m a set difference.                                  *)

ModeDir == "ModeDir"
ModeSymlink == "ModeSymlink"
ModeNamedPipe == "ModeNamedPipe"
ModeSocket == "ModeSocket"

\* The permission bits 0444, 0222 and 0111.
Perm0444 == {"0400", "0040", "0004"}
Perm0222 == {"0200", "0020", "0002"}
Perm0111 == {"0100", "0010", "0001"}

\* strings.Contains(name, string(filepath.Separator))
Contains(name, c) == \E i \in 1..Len(name) : name[i] = c

ErrBadName == "ErrBadName"

Constructed(kind, name, mode) ==
    [node |-> [NoNode EXCEPT !.kind = kind, !.name = name, !.mode = mode], err |-> "nil"]
BadName == [node |-> NoNode, err |-> ErrBadName]

NewDir(name, mode) ==
    IF name # <<SEP>> /\ Contains(name, SEP) THEN BadName
    ELSE Constructed("Dir", name,
                     {ModeDir} \cup (mode \ {ModeSymlink, ModeNamedPipe, ModeSocket}))

NewRO(name, mode) ==
    IF Contains(name, SEP) THEN BadName
    ELSE Constructed("RO", name, mode \ ({ModeDir} \cup Perm0222))

\* NewWO has no error result and makes no test of the name.
NewWO(name, mode) ==
    Constructed("WO", name, mode \ ({ModeDir} \cup Perm0444))

NewRW(name, mode) ==
    IF Contains(name, SEP) THEN BadName
    ELSE Constructed("RW", name, mode \ {ModeDir})

\* Dir.Own, RO.Own, WO.Own, RW.Own: store the owner; Dir.Own then stamps
\* mtime from d.fs.now(), which dereferences a nil d.fs.
Own(o, uid, gid) ==
    LET o1 == [o EXCEPT !.uid = uid, !.gid = gid]
    IN  IF o.kind # "Dir" THEN [node |-> o1, flt |-> "none"]
        ELSE IF o.fs = nofs
        THEN [node |-> o1, flt |-> "panic: nil pointer dereference"]
        ELSE [node |-> [o1 EXCEPT !.mtime = now], flt |-> "none"]

\* SetSys on the one node.
NodeSetSys(o, filesys) ==
    LET stamp == IF filesys # nofs THEN now ELSE ZeroTime
    IN  [o EXCEPT !.fs = filesys, !.ctime = stamp, !.atime = stamp, !.mtime = stamp]

\* setAttr: copy the fields the request marks valid into the node's attr and
\* into the response.
setAttr(o, req) ==
    [o EXCEPT !.mode = IF "Mode" \in req.valid THEN req.mode ELSE @,
              !.uid = IF "Uid" \in req.valid THEN req.uid ELSE @,
              !.gid = IF "Gid" \in req.valid THEN req.gid ELSE @,
              !.atime = IF "Atime" \in req.valid THEN req.atime ELSE @,
              !.mtime = IF "Mtime" \in req.valid THEN req.mtime ELSE @]

-----------------------------------------------------------------------------
(* Data backends. A Bytes is a slice: the array behind it (arr, as long as  *)
(* the slice's capacity) and its length. A String is its characters. A     *)
(* Func is a callback, with the log of the calls made of it.               *)

Min(a, b) == IF a < b THEN a ELSE b

Zeros(n) == [i \in 1..n |-> 0]

NewBytes(data) == [NoDev EXCEPT !.type = "Bytes", !.arr = data, !.len = Len(data)]
String(data) == [NoDev EXCEPT !.type = "String", !.arr = data, !.len = Len(data)]
Func(fn) == [NoDev EXCEPT !.type = "Func", !.fn = fn]

\* What a backend call gives: the backend after it, the count and the bytes
\* it returns, its error, and the fault if it did not return.
Done(d, n, data, err) == [dev |-> d, n |-> n, data |-> data, err |-> err, flt |-> "none"]
Panic(d, why) == [dev |-> d, n |-> 0, data |-> <<>>, err |-> "nil", flt |-> why]

\* The contents of the slice: the first len elements of its array.
Contents(d) == SubSeq(d.arr, 1, d.len)

\* Bytes.ReadAt(b, offset) with len(b) = size.
BytesReadAt(d, size, offset) ==
    IF size = 0 THEN Done(d, 0, <<>>, "nil")
    ELSE IF offset >= d.len THEN Done(d, 0, <<>>, "EOF")
    ELSE IF offset < 0 THEN Panic(d, "panic: slice bounds out of range")
    ELSE LET n == Min(size, d.len - offset)
         IN  Done(d, n, SubSeq(d.arr, offset + 1, offset + n),
                  IF n <= size THEN "EOF" ELSE "nil")

\* A Truncate that tests n against the capacity and not the length.
BytesTruncateToCap(d, n) ==
    IF n < 0 \/ n > Len(d.arr) THEN Done(d, 0, <<>>, "EINVAL")
    ELSE Done([d EXCEPT !.arr = [i \in 1..Len(d.arr) |-> IF i > n THEN 0 ELSE d.arr[i]],
                        !.len = n],
              0, <<>>, "nil")

\* Bytes.Truncate(n): zero the array from n to its capacity, cut the slice.
BytesTruncate(d, n) ==
    IF n < 0 \/ n > d.len THEN Done(d, 0, <<>>, "EINVAL")
    ELSE Done([d EXCEPT !.arr = [i \in 1..Len(d.arr) |-> IF i > n THEN 0 ELSE d.arr[i]],
                        !.len = n],
              0, <<>>, "nil")

\* The size classes of the allocator a grown byte slice is rounded up to.
SizeClasses == {8, 16, 24, 32, 48, 64}
RoundUpSize(n) ==
    IF n = 0 THEN 0
    ELSE CHOOSE c \in SizeClasses : c >= n /\ \A c2 \in SizeClasses : c2 >= n => c <= c2

\* The capacity append gives a byte slice of capacity oldCap that has to
\* hold newLen bytes.
GrowCap(oldCap, newLen) ==
    RoundUpSize(IF newLen > oldCap + oldCap THEN newLen ELSE oldCap + oldCap)

\* append(*f, b...): in place when the capacity allows, else in a new array
\* that holds the slice's contents, b, and zeros.
AppendBytes(d, b) ==
    LET newLen == d.len + Len(b)
    IN  IF newLen <= Len(d.arr)
        THEN [d EXCEPT !.arr = [i \in 1..Len(d.arr) |->
                                   IF i > d.len /\ i <= newLen THEN b[i - d.len]
                                   ELSE d.arr[i]],
                       !.len = newLen]
        ELSE [d EXCEPT !.arr = Contents(d) \o b \o Zeros(GrowCap(Len(d.arr), newLen) - newLen),
                       !.len = newLen]

\* A WriteAt that writes b at off and keeps the bytes behind it.
BytesWriteAtKeepsTail(d, b, off) ==
    IF off < 0 THEN Panic(d, "panic: slice bounds out of range")
    ELSE LET newLen == IF off + Len(b) > d.len THEN off + Len(b) ELSE d.len
             old == Contents(d) \o Zeros(newLen - d.len)
         IN  Done([d EXCEPT !.arr = [i \in 1..newLen |->
                                        IF i > off /\ i <= off + Len(b) THEN b[i - off]
                                        ELSE old[i]],
                            !.len = newLen],
                  Len(b), <<>>, "nil")

\* Bytes.WriteAt(b, off)
BytesWriteAt(d, b, off) ==
    IF off < 0 THEN Panic(d, "panic: slice bounds out of range")
    ELSE LET d1 == IF off >= Len(d.arr)
                   THEN \* t := make([]byte, off+len(b)); copy(t, *f); *f = t
                        [d EXCEPT !.arr = Contents(d) \o Zeros(off + Len(b) - d.len),
                                  !.len = off + Len(b)]
                   ELSE d
             d2 == [d1 EXCEPT !.len = off]
         IN  Done(AppendBytes(d2, b), Len(b), <<>>, "nil")

\* String.ReadAt(b, off) with len(b) = size.
StringReadAt(d, size, off) ==
    IF off < 0 THEN Done(d, 0, <<>>, "EINVAL")
    ELSE IF off >= d.len THEN Done(d, 0, <<>>, "EOF")
    ELSE LET n == Min(size, d.len - off)
         IN  Done(d, n, SubSeq(d.arr, off + 1, off + n),
                  IF n <= size THEN "EOF" ELSE "nil")

\* A Func.WriteAt that calls the callback and reports the bytes it was given.
FuncWriteAtCountsAll(d, b, off, ret) ==
    IF d.fn = Nil THEN Done(d, 0, <<>>, "EBADFD")
    ELSE Done([d EXCEPT !.log = Append(@, [b |-> b, off |-> off])], Len(b), <<>>, ret.err)

\* Func.WriteAt(b, off): a nil Func is an error, any other is called; ret is
\* what the callback returns for this call.
FuncWriteAt(d, b, off, ret) ==
    IF d.fn = Nil THEN Done(d, 0, <<>>, "EBADFD")
    ELSE Done([d EXCEPT !.log = Append(@, [b |-> b, off |-> off])], ret.n, <<>>, ret.err)

\* Size() of the three backends.
Size(d) == IF d.type = "Func" THEN 0 ELSE d.len

\* Truncate of the two writable backends; Func.Truncate is a no-op.
Truncate(d, n) == IF d.type = "Func" THEN Done(d, 0, <<>>, "nil") ELSE BytesTruncate(d, n)

\* f.dev.ReadAt through the Reader interface.
ReadAt(d, size, off) ==
    IF d.type = "String" THEN StringReadAt(d, size, off) ELSE BytesReadAt(d, size, off)

\* f.dev.WriteAt through the Writer interface.
WriteAt(d, b, off, ret) ==
    IF d.type = "Func" THEN FuncWriteAt(d, b, off, ret) ELSE BytesWriteAt(d, b, off)

-----------------------------------------------------------------------------
(* Requests of the protocol engine on a file node. Each takes f.mu for its *)
(* whole length and releases it on return, also when it panics.            *)

\* What a request gives: the node and the backend after it, the response
\* (count, bytes, size attribute), the error, and the fault if it panicked.
Response(o, d, n, data, size, err, flt) ==
    [node |-> o, dev |-> d, n |-> n, data |-> data, size |-> size, err |-> err, flt |-> flt]

NilDereference == "panic: nil pointer dereference"

\* RO.Read and RW.Read: stamp atime from f.fs.now(), read at most req.Size
\* bytes at req.Offset, answer with the bytes read; io.EOF is no error.
Read(o, d, size, off) ==
    IF o.fs = nofs THEN Response(o, d, 0, <<>>, 0, "nil", NilDereference)
    ELSE LET o1 == [o EXCEPT !.atime = now]
             r == ReadAt(d, size, off)
         IN  Response(o1, r.dev, r.n, r.data, 0,
                      IF r.err = "EOF" THEN "nil" ELSE r.err, r.flt)

\* WO.Write and RW.Write: stamp mtime from f.fs.now(), write req.Data at
\* req.Offset, answer with the count and the error of the backend.
Write(o, d, data, off, ret) ==
    IF o.fs = nofs THEN Response(o, d, 0, <<>>, 0, "nil", NilDereference)
    ELSE LET o1 == [o EXCEPT !.mtime = now]
             r == WriteAt(d, data, off, ret)
         IN  Response(o1, r.dev, r.n, <<>>, 0, r.err, r.flt)

\* A Setattr that copies the flagged fields before it truncates.
SetattrAttrFirst(o, d, req) ==
    IF "Size" \in req.valid
    THEN LET r == Truncate(d, req.size)
         IN  IF r.err # "nil" THEN Response(setAttr(o, req), d, 0, <<>>, 0, r.err, "none")
             ELSE Response(setAttr(o, req), r.dev, 0, <<>>, Size(r.dev), "nil", "none")
    ELSE Response(setAttr(o, req), d, 0, <<>>, 0, "nil", "none")

\* WO.Setattr and RW.Setattr: truncate the backend when the request carries
\* a size, and return the error if that fails; then setAttr.
Setattr(o, d, req) ==
    IF "Size" \in req.valid
    THEN LET r == Truncate(d, req.size)
         IN  IF r.err # "nil" THEN Response(o, d, 0, <<>>, 0, r.err, "none")
             ELSE Response(setAttr(o, req), r.dev, 0, <<>>, Size(r.dev), "nil", "none")
    ELSE Response(setAttr(o, req), d, 0, <<>>, 0, "nil", "none")

-----------------------------------------------------------------------------
(* The program that constructs one node and the requests made of it *)

NameInputs == {<<"x">>, <<"a", SEP, "b">>, <<SEP>>, <<>>}

Mode0666 == Perm0444 \cup Perm0222
ModeInputs ==
    {Mode0666, Perm0444, Perm0222, {ModeDir} \cup Mode0666 \cup Perm0111,
     {ModeSymlink, ModeSocket, "0400", "0200"}}

\* The callback of a Func, and the results a call of it may return.
Callback == "func"
CallbackReturns ==
    {[count |-> "len(b)", err |-> "nil"], [count |-> "len(b)", err |-> "EINVAL"],
     [count |-> "0", err |-> "EIO"]}
Returns(ret, b) == [n |-> IF ret.count = "len(b)" THEN Len(b) ELSE 0, err |-> ret.err]

DataInputs == {<<>>, <<1>>, <<2, 1>>}
WriteOffsets == 0..MaxOff
ReadOffsets == -1..MaxOff
ReadSizes == {0, 2, MaxOff + 1}

\* Setattr requests. A size is the request's unsigned size converted to
\* int64: -1 stands for a size of 2^63 or more.
SetattrRequest(valid, size, mode) ==
    [valid |-> valid, size |-> size, mode |-> mode, uid |-> 1, gid |-> 1,
     atime |-> MaxClock, mtime |-> MaxClock]
SetattrInputs ==
    {SetattrRequest({"Size"}, n, {}) : n \in -1..MaxOff}
    \cup {SetattrRequest({"Mode"}, 0, m) : m \in ModeInputs}
    \cup {SetattrRequest({"Size", "Mode", "Uid", "Gid", "Atime", "Mtime"}, n, Perm0222) :
             n \in {1, MaxOff}}
    \cup {SetattrRequest({"Uid", "Gid"}, 0, {}), SetattrRequest({"Atime", "Mtime"}, 0, {})}

\* The backends the program gives each variant of file.
DevInputs(kind) ==
    CASE kind = "RO" -> {String(<<1, 2>>), NewBytes(<<1, 2, 1>>)}
      [] kind = "WO" -> {Func(Callback), Func(Nil), NewBytes(<<1, 2>>)}
      [] kind = "RW" -> {NewBytes(<<1, 2, 1>>), NewBytes(<<>>)}

\* The record of a request: its arguments and response, the node and the
\* backend before it, and the request made before it.
Request(op, args, r) ==
    [op |-> op, args |-> args, n |-> r.n, data |-> r.data, size |-> r.size,
     err |-> r.err, flt |-> r.flt, pre |-> obj, predev |-> dev,
     prev |-> IF resp.op = "none" THEN NoRequest
              ELSE [op |-> resp.op, args |-> resp.args, err |-> resp.err,
                    flt |-> resp.flt, predev |-> resp.predev]]

Operating == fault = "none" /\ steps < MaxOps

\* The end of every call and request on the node.
Answer(op, args, r) ==
    /\ obj' = r.node
    /\ dev' = r.dev
    /\ resp' = Request(op, args, r)
    /\ steps' = steps + 1
    /\ UNCHANGED <<heap, now, fault, last, goroutines>>

Construct(op, name, mode, d, c) ==
    Answer(op, [name |-> name, mode |-> mode],
           Response(c.node, IF c.err = "nil" THEN d ELSE NoDev, 0, <<>>, 0, c.err, "none"))

ConstructDir ==
    /\ Operating /\ obj.kind = "none"
    /\ \E name \in NameInputs, mode \in ModeInputs :
          Construct("NewDir", name, mode, NoDev, NewDir(name, mode))

ConstructRO ==
    /\ Operating /\ obj.kind = "none"
    /\ \E name \in NameInputs, mode \in ModeInputs, d \in DevInputs("RO") :
          Construct("NewRO", name, mode, d, NewRO(name, mode))

ConstructWO ==
    /\ Operating /\ obj.kind = "none"
    /\ \E name \in NameInputs, mode \in ModeInputs, d \in DevInputs("WO") :
          Construct("NewWO", name, mode, d, NewWO(name, mode))

ConstructRW ==
    /\ Operating /\ obj.kind = "none"
    /\ \E name \in NameInputs, mode \in ModeInputs, d \in DevInputs("RW") :
          Construct("NewRW", name, mode, d, NewRW(name, mode))

OwnCall ==
    /\ Operating /\ obj.kind # "none"
    /\ LET r == Own(obj, 1, 1)
       IN  Answer("Own", [uid |-> 1, gid |-> 1],
                  Response(r.node, dev, 0, <<>>, 0, "nil", r.flt))

\* SetSys, as sync calls it when the node is bound into a file system or
\* unbound from it.
SetSysCall ==
    /\ Operating /\ obj.kind # "none"
    /\ \E filesys \in {FS, nofs} :
          Answer("SetSys", [filesys |-> filesys],
                 Response(NodeSetSys(obj, filesys), dev, 0, <<>>, 0, "nil", "none"))

ReadRequest ==
    /\ Operating /\ obj.kind \in {"RO", "RW"}
    /\ \E size \in ReadSizes, off \in ReadOffsets :
          Answer("Read", [size |-> size, off |-> off], Read(obj, dev, size, off))

WriteRequest ==
    /\ Operating /\ obj.kind \in {"WO", "RW"}
    /\ \E data \in DataInputs, off \in WriteOffsets, ret \in CallbackReturns :
          Answer("Write", [data |-> data, off |-> off, ret |-> Returns(ret, data)],
                 Write(obj, dev, data, off, Returns(ret, data)))

SetattrCall ==
    /\ Operating /\ obj.kind \in {"WO", "RW"}
    /\ \E req \in SetattrInputs :
          Answer("Setattr", req, Setattr(obj, dev, req))

\* A program that constructs a node, owns it, binds it and changes its
\* attributes.
InitNode == InitConc
NextNode ==
    \/ ConstructDir \/ ConstructRO \/ ConstructWO \/ ConstructRW
    \/ OwnCall \/ SetSysCall \/ SetattrCall

SpecNode == InitNode /\ [][NextNode]_vars

\* A file of a served file system: constructed, bound and synced, with one
\* of the backends.
ServedFiles ==
    {<<NodeSetSys(c.node, FS), d>> :
        c \in {NewRO(<<"x">>, Mode0666)}, d \in DevInputs("RO")}
    \cup {<<NodeSetSys(c.node, FS), d>> :
        c \in {NewWO(<<"x">>, Mode0666)}, d \in DevInputs("WO")}
    \cup {<<NodeSetSys(c.node, FS), d>> :
        c \in {NewRW(<<"x">>, Mode0666)}, d \in DevInputs("RW")}

InitData ==
    /\ now = 1
    /\ fault = "none"
    /\ steps = 0
    /\ NoGoroutines
    /\ Install0(Fixture(1))
    /\ last = [op |-> "NewFileSystem", path |-> <<>>, args |-> <<>>, ret |-> Nil,
               err |-> NoError, pre |-> Fixture(1)]
    /\ \E f \in ServedFiles : obj = f[1] /\ dev = f[2]
    /\ resp = NoRequest

NextData == ReadRequest \/ WriteRequest \/ SetattrCall \/ SetSysCall

SpecData == InitData /\ [][NextData]_vars

-----------------------------------------------------------------------------
(* Notions the properties are stated in *)

\* The nodes reachable from n through directory maps, n included.
RECURSIVE ReachFrom(_, _, _)
ReachFrom(t, frontier, seen) ==
    IF frontier \subseteq seen THEN seen
    ELSE LET new == frontier \ seen
             next == UNION {IF Kind(m) = "Dir" THEN Children(t, m) ELSE {} : m \in new}
         IN  ReachFrom(t, next, seen \cup new)

Reach(t, n) == ReachFrom(t, {n}, {})

\* The directory slots <<d, k>> of the tree under the root that hold n.
Slots(t, n) ==
    {s \in {<<d, k>> : d \in Reach(t, "root") \cap Dirs, k \in {Name(m) : m \in Nodes}} :
        s[2] \in DOMAIN t.files[s[1]] /\ t.files[s[1]][s[2]] = n}

\* A directory that is reachable from one of its own children.
OnCycle(t, d) == \E c \in Children(t, d) : d \in Reach(t, c)

\* The structure under the root is a tree.
IsTree(t) ==
    /\ \A n \in Nodes : Cardinality(Slots(t, n)) <= 1
    /\ Slots(t, "root") = {}
    /\ \A d \in Reach(t, "root") \cap Dirs : ~OnCycle(t, d)

\* How far a sequence of path elements leads from node d: "found", "missing"
\* (a directory lacks the next element) or "notdir" (a file is reached with
\* elements left).
RECURSIVE PathStatus(_, _, _, _)
PathStatus(t, d, elems, i) ==
    IF i > Len(elems) THEN "found"
    ELSE IF Kind(d) # "Dir" THEN "notdir"
    ELSE IF elems[i] \notin DOMAIN t.files[d] THEN "missing"
    ELSE PathStatus(t, t.files[d][elems[i]], elems, i + 1)

\* The node a sequence of path elements leads to, when PathStatus is "found".
RECURSIVE Resolve(_, _, _, _)
Resolve(t, d, elems, i) ==
    IF i > Len(elems) THEN d ELSE Resolve(t, t.files[d][elems[i]], elems, i + 1)

Returned == fault = "none"
Succeeded(op) == last.op = op /\ Returned /\ last.err = NoError

-----------------------------------------------------------------------------
(* Properties *)

\* C1: after Sync has returned, every node reachable from the root, at any
\* depth and of any variant, refers back to the file system.
C1_SyncSetsEveryBackReference ==
    (last.op = "Sync" /\ Returned) =>
        \A n \in Reach(Tree, "root") : fs[n] = FS

\* A Sync that returned on a tree with a directory and a file below it, at
\* depths 1 and 2, that both had no back-reference before.
C1_Witness ==
    /\ last.op = "Sync" /\ Returned
    /\ \E d \in Children(Tree, "root"), c \in Files :
          /\ Kind(d) = "Dir"
          /\ c \in Children(Tree, d)
          /\ last.pre.fs[d] = nofs
          /\ last.pre.fs[c] = nofs

\* C2: a Bind that succeeds leaves the node in the directory the path leads
\* to, under the node's name, changes no other entry of any directory, and
\* leaves every node of the bound subtree referring back to the file system.
C2_BindInsertsAndSyncs ==
    Succeeded("Bind") =>
        LET n == last.args[1]
            d == Resolve(last.pre, "root", pathElements(last.path), 1)
        IN  /\ Kind(d) = "Dir"
            /\ Name(n) \in DOMAIN files[d]
            /\ files[d][Name(n)] = n
            /\ \A e \in Dirs : \A k \in (DOMAIN files[e]) \cup (DOMAIN last.pre.files[e]) :
                  <<e, k>> # <<d, Name(n)>> =>
                      /\ k \in DOMAIN files[e]
                      /\ k \in DOMAIN last.pre.files[e]
                      /\ files[e][k] = last.pre.files[e][k]
            /\ \A m \in Reach(Tree, n) : fs[m] = FS

\* A Bind that succeeded on a directory with a child, below the root, where
\* both had no back-reference before the call and the directory had been in
\* the tree before (its timestamps were cleared by an Unbind).
C2_Witness ==
    /\ Succeeded("Bind")
    /\ Kind(last.args[1]) = "Dir"
    /\ last.args[1] # "root"
    /\ Resolve(last.pre, "root", pathElements(last.path), 1) # "root"
    /\ \E c \in Children(Tree, last.args[1]) :
          /\ last.pre.fs[c] = nofs
          /\ last.pre.fs[last.args[1]] = nofs
          /\ fs[c] = FS

\* C3: an Unbind that succeeds removes the named child from its parent's map,
\* returns that child with its back-reference cleared, and changes no other
\* entry of any directory.
C3_UnbindRemovesAndDetaches ==
    Succeeded("Unbind") =>
        LET sp == FilepathSplit(Clean(last.path))
            d == Resolve(last.pre, "root", pathElements(sp.dir), 1)
        IN  /\ sp.file \notin DOMAIN files[d]
            /\ last.ret \notin Children(Tree, d)
            /\ sp.file \in DOMAIN last.pre.files[d]
            /\ last.ret = last.pre.files[d][sp.file]
            /\ fs[last.ret] = nofs
            /\ \A e \in Dirs : \A k \in (DOMAIN files[e]) \cup (DOMAIN last.pre.files[e]) :
                  <<e, k>> # <<d, sp.file>> =>
                      /\ k \in DOMAIN files[e]
                      /\ k \in DOMAIN last.pre.files[e]
                      /\ files[e][k] = last.pre.files[e][k]

\* An Unbind that succeeded on a node that referred to the file system.
C3_Witness ==
    /\ Succeeded("Unbind")
    /\ last.pre.fs[last.ret] = FS
    /\ Kind(last.ret) = "Dir"
    /\ Children(Tree, last.ret) # {}

\* C4: an Unbind of a path with an element, the last or an earlier one, that
\* is missing from the directory reached so far returns ENOENT and no node,
\* and leaves every map, back-reference and timestamp as it was.
C4_UnbindMissingLeavesTree ==
    (last.op = "Unbind"
        /\ PathStatus(last.pre, "root", pathElements(last.path), 1) = "missing") =>
        /\ Returned
        /\ last.err.Err = "ENOENT"
        /\ last.ret = Nil
        /\ Tree = last.pre

\* An Unbind of a path whose first element is missing and is not its last,
\* on a tree that has a synced child.
C4_Witness ==
    /\ last.op = "Unbind"
    /\ Len(pathElements(last.path)) = 2
    /\ pathElements(last.path)[1] \notin DOMAIN last.pre.files["root"]
    /\ pathElements(last.path)[2] \in DOMAIN last.pre.files["root"]
    /\ last.err.Err = "ENOENT"
    /\ \E c \in Children(Tree, "root") : fs[c] = FS

\* C5 (as claimed): Bind returns ENOENT and leaves the tree and the node as
\* they were whenever an element of the path is missing or an element that is
\* not the last is a file.
C5_BindBadPathReturnsNotExist ==
    (last.op = "Bind"
        /\ PathStatus(last.pre, "root", pathElements(last.path), 1) \in {"missing", "notdir"}) =>
        /\ Returned
        /\ last.err.Err = "ENOENT"
        /\ Tree = last.pre

\* C6 (as claimed): Unbind of the root path returns EINVAL and leaves the tree
\* as it was.
C6_UnbindRootReturnsInvalid ==
    (last.op = "Unbind" /\ Clean(last.path) = <<SEP>>) =>
        /\ Returned
        /\ last.err.Err = "EINVAL"
        /\ Tree = last.pre

\* C7 (as claimed): a Bind(p, n) on an existing directory path p returns,
\* and the Unbind(p + "/" + n.Name()) that follows it returns n, with the
\* maps of its subtree as they were before the Bind, and leaves the maps of
\* the rest of the tree as they were before the Bind when the directory had
\* no child of that name.
C7_BindUnbindRoundTrip ==
    /\ []((last.op = "Bind"
             /\ PathStatus(last.pre, "root", pathElements(last.path), 1) = "found"
             /\ Kind(Resolve(last.pre, "root", pathElements(last.path), 1)) = "Dir") =>
            Returned /\ last.err = NoError)
    /\ [][(/\ Succeeded("Bind")
           /\ steps' = steps + 1
           /\ last'.op = "Unbind"
           /\ last'.path = last.path \o <<SEP>> \o Name(last.args[1])) =>
          LET n == last.args[1]
              d == Resolve(last.pre, "root", pathElements(last.path), 1)
          IN  /\ fault' = "none"
              /\ last'.err = NoError
              /\ last'.ret = n
              /\ \A m \in Reach(last.pre, n) \cap Dirs : files'[m] = last.pre.files[m]
              /\ Name(n) \notin DOMAIN last.pre.files[d] => files' = last.pre.files]_vars

\* C8 (as claimed): whatever Bind and Unbind calls are made on a composed
\* tree, the structure under the root is a tree: no node in two directory
\* slots, no directory reachable from itself.
C8_AlwaysATree == IsTree(Tree)

\* C25 (as claimed): whatever Bind and Unbind calls have returned, every
\* node that refers back to the file system is reachable from its root; a
\* child that a Bind displaced from its slot no longer refers to it.
C25_OnlyReachableNodesReferBack ==
    Returned => \A n \in Nodes : fs[n] = FS => n \in Reach(Tree, "root")

\* The node the directory part of a call's path leads to: the whole path for
\* Bind, the path without its last element for Unbind.
ParentElements ==
    IF last.op = "Bind" THEN pathElements(last.path)
    ELSE pathElements(FilepathSplit(Clean(last.path)).dir)

\* C26 (as claimed): a Bind whose path leads to a node that is not a
\* directory, and an Unbind of a path whose parent is such a node, return an
\* error and leave the tree as it was.
C26_NotADirectoryIsAnError ==
    (last.op \in {"Bind", "Unbind"}
        /\ PathStatus(last.pre, "root", ParentElements, 1) = "found"
        /\ Kind(Resolve(last.pre, "root", ParentElements, 1)) # "Dir") =>
        /\ Returned
        /\ last.err # NoError
        /\ Tree = last.pre

-----------------------------------------------------------------------------
(* Concurrent callers *)

Structural == {"Bind", "Unbind", "Sync"}

\* Goroutine p is in a structural operation, at or after its first read of
\* the tree and not yet past its last write to it.
InCritical(p) ==
    /\ loc[p].op \in Structural
    /\ pc[p] \in {"walk", "walkread", "walked", "insert", "ubread", "ubdelete", "sync"}

\* C9: Bind, Unbind and Sync are mutually exclusive. In every interleaving of
\* concurrent callers at most one of them is between its first read of the
\* tree and its last write to it, and the one that is holds the filesystem's
\* lock.
C9_StructuralOperationsExclusive ==
    /\ \A p, q \in Procs : p # q => ~(InCritical(p) /\ InCritical(q))
    /\ \A p \in Procs : InCritical(p) => mu = p

\* A Bind is synchronizing the subtree it attached while another structural
\* operation waits for the filesystem's lock.
C9_Witness ==
    \E p, q \in Procs :
        /\ p # q
        /\ loc[p].op = "Bind" /\ pc[p] = "sync" /\ Len(loc[p].stack) > 0
        /\ loc[q].op \in Structural /\ pc[q] = "lock"

\* C10: every access to a directory's child mapping is ordered by that
\* directory's lock. In no interleaving does Bind, Unbind, Sync or With access
\* the child mapping of a directory at the same time as a Lookup or ReadDirAll
\* on that directory, one of the two accesses being a write.
C10_MapAccessOrderedByDirLock ==
    \A p, q \in Procs :
        (p # q /\ loc[p].op \in Structural \cup {"With"}
               /\ loc[q].op \in {"Lookup", "ReadDirAll"}) =>
            \A x \in acc[p], y \in acc[q] :
                ~(x.dir = y.dir /\ "w" \in {x.kind, y.kind})

\* C11: every call of Sync, Bind and Unbind terminates, whatever tree With,
\* Bind and Unbind have built: none of them runs its goroutine out of stack
\* with the file system's lock held.
C11_StructuralCallsTerminate ==
    last.op \in {"Sync", "Bind", "Unbind"} => fault # "stack overflow"

\* C20: Sync is idempotent. A Sync that returns stores the file system and
\* the clock's time in exactly the nodes reachable from the root whose
\* back-reference was stale, and changes no back-reference and no timestamp
\* of any other node, however far the clock has advanced.
C20_SyncStampsOnlyStaleNodes ==
    [][(steps' = steps + 1 /\ last'.op = "Sync" /\ fault' = "none") =>
          LET reached == Reach(Tree, "root")
          IN  \A n \in Nodes :
                IF n \in reached /\ fs[n] # FS
                THEN /\ fs'[n] = FS
                     /\ atime'[n] = now /\ mtime'[n] = now /\ ctime'[n] = now
                ELSE /\ fs'[n] = fs[n]
                     /\ atime'[n] = atime[n]
                     /\ mtime'[n] = mtime[n]
                     /\ ctime'[n] = ctime[n]]_vars

\* A Sync that returned, after the clock had advanced, on a tree with a stale
\* node and with consistent nodes: the stale node carries the later time.
C20_Witness ==
    /\ last.op = "Sync" /\ Returned
    /\ LET reached == Reach(last.pre, "root")
       IN  \E n, m \in reached :
              /\ last.pre.fs[n] = FS /\ last.pre.fs[m] # FS
              /\ atime[n] = last.pre.atime[n]
              /\ atime[n] < atime[m]

\* C21 (as claimed): with the tree changed through Bind and Unbind only, a
\* concurrent Lookup never returns, and a concurrent ReadDirAll never lists,
\* a node whose back-reference is not the file system at that moment.
C21_WorkersSeeOnlySyncedNodes ==
    [][\A p \in Procs :
          /\ (pc[p] = "lkread" /\ pc'[p] = "dunlock" /\ loc'[p].ret # Nil) =>
                fs[loc'[p].ret] = FS
          /\ (pc[p] = "rdattr" /\ pc'[p] = "rdrange") => fs[loc[p].node] = FS]_vars

\* Goroutine p is at a Lock that cannot return in this state.
Waiting(p) ==
    \/ pc[p] = "lock" /\ ~MutexFree(mu)
    \/ pc[p] = "dlock" /\ ~MutexFree(nmu[loc[p].d])
    \/ /\ pc[p] = "sync" /\ Len(loc[p].stack) > 0
       /\ Top(p).at \in {"sys", "setsys"} /\ ~MutexFree(nmu[Top(p).node])
    \/ pc[p] = "rdattr" /\ ~MutexFree(nmu[loc[p].node])

\* Every goroutine that is in a call waits for a lock.
Deadlock ==
    /\ fault = "none"
    /\ \E p \in Procs : Waiting(p)
    /\ \A p \in Procs : pc[p] \in {"idle", "done"} \/ Waiting(p)

\* C22 (as claimed): no interleaving reaches a deadlock; the file system's
\* lock is never requested by a goroutine that holds a node's lock, and no
\* goroutine requests a node's lock that it holds.
C22_NoDeadlock ==
    /\ ~Deadlock
    /\ \A p \in Procs : pc[p] = "lock" => \A n \in Nodes : nmu[n] # p
    /\ \A p \in Procs : pc[p] = "rdattr" => nmu[loc[p].node] # p

\* C24 (as claimed): a Lookup or ReadDirAll on a directory the protocol
\* engine holds completes with a result or an error, also when the directory
\* or one of its ancestors has been unbound since: no such call faults on the
\* directory's cleared back-reference.
C24_HandleCallsComplete ==
    \A p \in Procs :
        loc[p].op \in {"Lookup", "ReadDirAll"} => loc[p].flt # NilDereference

-----------------------------------------------------------------------------
(* One node and its backend *)

Constructors == {"NewDir", "NewRO", "NewWO", "NewRW"}

\* C12: each of the four constructors succeeds for every name without the
\* separator and fails with ErrBadName, returning no node, for every name
\* that contains it, except NewDir for the name "/".
C12_ConstructorsRejectSeparator ==
    resp.op \in Constructors =>
        IF Contains(resp.args.name, SEP) /\ ~(resp.op = "NewDir" /\ resp.args.name = <<SEP>>)
        THEN resp.err = ErrBadName /\ obj.kind = "none"
        ELSE resp.err = "nil" /\ obj.kind # "none" /\ obj.name = resp.args.name

\* C13: in every reachable state a directory's mode has the directory bit
\* and none of the symlink, pipe and socket bits, no file's mode has the
\* directory bit, a read-only file's mode has no write bit and a write-only
\* file's mode has no read bit.
C13_ModeInvariant ==
    /\ obj.kind = "Dir" =>
          ModeDir \in obj.mode /\ obj.mode \cap {ModeSymlink, ModeNamedPipe, ModeSocket} = {}
    /\ obj.kind \in {"RO", "WO", "RW"} => ModeDir \notin obj.mode
    /\ obj.kind = "RO" => obj.mode \cap Perm0222 = {}
    /\ obj.kind = "WO" => obj.mode \cap Perm0444 = {}

WroteBytes ==
    resp.op = "Write" /\ resp.flt = "none" /\ resp.predev.type = "Bytes"

\* C14: a WriteAt(b, off) on a Bytes at an offset beyond its length L leaves
\* zeros at L..off-1 and b at off..off+len(b)-1, whatever WriteAt and
\* Truncate calls came before.
C14_GapIsZero ==
    (WroteBytes /\ resp.args.off > resp.predev.len) =>
        /\ \A i \in (resp.predev.len + 1)..resp.args.off : dev.arr[i] = 0
        /\ SubSeq(Contents(dev), resp.args.off + 1, resp.args.off + Len(resp.args.data))
             = resp.args.data

\* C15: after a Write of b at off on a read-write file backed by a Bytes,
\* the length is off+len(b), the response reports len(b) bytes and no error,
\* the bytes below min(off, old length) are unchanged and the bytes from off
\* are b; a Write at the old length leaves the old content followed by b.
C15_WriteSetsLengthAndBytes ==
    (WroteBytes /\ obj.kind = "RW") =>
        LET off == resp.args.off
            b == resp.args.data
        IN  /\ dev.len = off + Len(b)
            /\ resp.n = Len(b) /\ resp.err = "nil"
            /\ \A i \in 1..Min(off, resp.predev.len) : dev.arr[i] = resp.predev.arr[i]
            /\ SubSeq(Contents(dev), off + 1, off + Len(b)) = b
            /\ off = resp.predev.len => Contents(dev) = Contents(resp.predev) \o b

\* A Write of two bytes at the end of a read-write file of three bytes.
C15_Witness ==
    /\ WroteBytes /\ obj.kind = "RW"
    /\ resp.predev.len = 3 /\ resp.args.off = 3 /\ Len(resp.args.data) = 2

FullRead ==
    /\ resp.op = "Read" /\ resp.flt = "none"
    /\ resp.args.off = 0 /\ resp.args.size >= resp.predev.len

\* C16: on a read-write file backed by a Bytes, a Setattr with a size n,
\* 0 <= n <= length, succeeds, reports n, and a full Read from 0 that
\* follows yields the first n bytes of the content before it; a size that is
\* negative or greater than the length fails with EINVAL and leaves the
\* buffer and its length as they were.
C16_SetattrSizeTruncates ==
    /\ (resp.op = "Setattr" /\ "Size" \in resp.args.valid
          /\ obj.kind = "RW" /\ resp.predev.type = "Bytes") =>
            IF 0 <= resp.args.size /\ resp.args.size <= resp.predev.len
            THEN /\ resp.err = "nil" /\ resp.flt = "none"
                 /\ resp.size = resp.args.size
                 /\ Contents(dev) = SubSeq(Contents(resp.predev), 1, resp.args.size)
            ELSE resp.err = "EINVAL" /\ dev = resp.predev /\ obj = resp.pre
    /\ (FullRead /\ obj.kind = "RW" /\ resp.predev.type = "Bytes"
          /\ resp.prev.op = "Setattr" /\ "Size" \in resp.prev.args.valid
          /\ resp.prev.err = "nil") =>
            /\ resp.err = "nil"
            /\ resp.data = SubSeq(Contents(resp.prev.predev), 1, resp.prev.args.size)

\* A full Read that follows a Setattr cutting three bytes to two.
C16_Witness ==
    /\ FullRead /\ obj.kind = "RW" /\ resp.predev.type = "Bytes"
    /\ resp.prev.op = "Setattr" /\ "Size" \in resp.prev.args.valid
    /\ resp.prev.err = "nil"
    /\ resp.prev.predev.len = 3 /\ resp.prev.args.size = 2
    /\ Len(resp.data) = 2

\* C17: for a Bytes and a String and every requested length, ReadAt at an
\* offset at or beyond the length returns no bytes and io.EOF, never another
\* error, and the node's Read answers it with no bytes and no error.
C17_ReadAtEndGivesEOF ==
    (resp.op = "Read" /\ resp.flt = "none" /\ resp.args.off >= resp.predev.len) =>
        LET r == ReadAt(resp.predev, resp.args.size, resp.args.off)
        IN  /\ r.n = 0 /\ r.err = "EOF"
            /\ resp.n = 0 /\ resp.data = <<>> /\ resp.err = "nil"

WroteFunc ==
    resp.op = "Write" /\ resp.flt = "none" /\ obj.kind = "WO" /\ resp.predev.type = "Func"

\* C19: a Write on a write-only file backed by a Func calls the callback
\* once, with the request's bytes and offset, and answers with the count and
\* the error the callback returned; with a nil Func it answers zero bytes
\* and EBADFD and calls nothing.
C19_WriteCallsCallbackOnce ==
    WroteFunc =>
        IF resp.predev.fn = Nil
        THEN resp.n = 0 /\ resp.err = "EBADFD" /\ dev.log = resp.predev.log
        ELSE /\ dev.log = Append(resp.predev.log,
                                 [b |-> resp.args.data, off |-> resp.args.off])
             /\ resp.n = resp.args.ret.n
             /\ resp.err = resp.args.ret.err

\* A second Write of two bytes at an offset, whose callback returns the
\* count and an error.
C19_Witness ==
    /\ WroteFunc /\ resp.predev.fn # Nil
    /\ Len(resp.predev.log) = 1
    /\ Len(resp.args.data) = 2 /\ resp.args.off > 0
    /\ resp.args.ret.err = "EINVAL" /\ resp.n = 2

\* C27 (as claimed): Own on a node of any variant, constructed and not yet
\* in a file system, bound, or unbound, stores the uid and gid, returns the
\* node and does not fail.
C27_OwnNeverFails ==
    resp.op = "Own" =>
        /\ resp.flt = "none"
        /\ obj.uid = resp.args.uid /\ obj.gid = resp.args.gid
        /\ obj.kind = resp.pre.kind /\ obj.name = resp.pre.name

\* The Setattr requests that carry a size the backend refuses.
TruncateFailed ==
    /\ resp.op = "Setattr" /\ "Size" \in resp.args.valid
    /\ obj.kind \in {"WO", "RW"}
    /\ Truncate(resp.predev, resp.args.size).err # "nil"

\* C23: a Setattr on a write-only or read-write file that carries a size and
\* other flagged fields, and whose truncate fails, returns the truncate's
\* error and leaves the node's attributes, and the backend, as they were.
C23_FailedTruncateLeavesAttr ==
    TruncateFailed =>
        /\ resp.flt = "none"
        /\ resp.err = Truncate(resp.predev, resp.args.size).err
        /\ obj = resp.pre
        /\ dev = resp.predev

\* A Setattr with a size beyond the length and with mode, owner and times
\* that all differ from the node's.
C23_Witness ==
    /\ TruncateFailed
    /\ resp.args.valid = {"Size", "Mode", "Uid", "Gid", "Atime", "Mtime"}
    /\ resp.err = "EINVAL"
    /\ resp.args.mode # resp.pre.mode
    /\ resp.args.uid # resp.pre.uid /\ resp.args.gid # resp.pre.gid
    /\ resp.args.atime # resp.pre.atime /\ resp.args.mtime # resp.pre.mtime

-----------------------------------------------------------------------------
(* Directory requests *)

Listed == last.op = "ReadDirAll" /\ Returned
ListedNames == {last.ret[i].Name : i \in 1..Len(last.ret)}

\* C18: a listing has exactly one entry per key of the directory's child
\* mapping, named by that key; a name is listed iff a Lookup of it on the
\* same directory succeeds; and the keys of a directory, and so two
\* listings of it, differ only across a With, Bind or Unbind.
C18_ListingIsTheChildMapping ==
    /\ [](Listed =>
            LET d == last.args[1]
            IN  /\ Len(last.ret) = Cardinality(DOMAIN last.pre.files[d])
                /\ ListedNames = DOMAIN last.pre.files[d]
                /\ ListedNames = DOMAIN files[d]
                /\ \A name \in LookupNames :
                      name \in ListedNames <=> lookup(d, name, Tree).err = NoError)
    /\ []((last.op = "Lookup" /\ Returned) =>
            (last.err = NoError <=> last.path \in DOMAIN files[last.args[1]]))
    /\ [][\A d \in Dirs :
            DOMAIN files'[d] # DOMAIN files[d] => last'.op \in {"With", "Bind", "Unbind"}]_vars

\* A listing of a directory with two children, one of which a Lookup finds.
C18_Witness ==
    /\ Listed
    /\ Len(last.ret) = 2
    /\ \E name \in LookupNames : name \in ListedNames
    /\ \E name \in LookupNames : name \notin ListedNames

TypeOK ==
    /\ \A d \in Dirs : \A k \in DOMAIN files[d] : files[d][k] \in Nodes /\ Name(files[d][k]) = k
    /\ \A n \in Nodes : fs[n] \in {FS, nofs}
    /\ fault \in {"none", "stack overflow", "panic: interface conversion",
                  "concurrent map read and map write", "deadlock",
                  "panic: nil pointer dereference"}
    /\ mu \in Procs \cup {Nil}
    /\ \A n \in Nodes : nmu[n] \in Procs \cup {Nil}
    /\ \A p \in Procs : \A x \in acc[p] : x.dir \in Dirs /\ x.kind \in {"r", "w"}

====
